---- MODULE Spec2Model ----
(***************************************************************************)
(* Model of JSC_SAL_tutorial.ipynb: the notebook's cells, run top to       *)
(* bottom ("Run All"), over NUCAPS granule files found on disk.            *)
(*                                                                         *)
(* Pressure values are floats in the files; they are modelled in fixed     *)
(* point, as integers counting 1/Scale millibar (4966 is 496.6 mb).        *)
(* Positions in TLA+ sequences are 1-based; every index the notebook       *)
(* stores or passes on is kept 0-based, as in Python.                      *)
(***************************************************************************)
EXTENDS Integers, Sequences, FiniteSets

VARIABLES
    disk,           \* the granule files matched by the glob, in glob order
    fname,          \* which of them the single-granule cell opens (1-based)
    target,         \* the key subscripted into PresLevIndex (the literal 496)
    levelCount,     \* the repeat count and column count (the literal 100)
    profileCount,   \* the row count given to reshape (the literal 120)
    pc,             \* the next cell to run
    err,            \* "none", or the exception that stopped the run at cell pc
    nucaps,         \* the single granule, once opened
    repeatFORs,     \* the broadcast coordinate grid
    pressureLevs,   \* profile 0's levels as int32
    PresLevIndex,   \* dict: int32 level -> index
    griddedView,    \* the single-granule slice at one level
    nucapsAll,      \* all granules concatenated
    griddedViewAll, \* the multi-granule slice, quality filtered
    figures         \* the slices handed to the plotting sink

vars == <<disk, fname, target, levelCount, profileCount, pc, err, nucaps,
          repeatFORs, pressureLevs, PresLevIndex, griddedView, nucapsAll,
          griddedViewAll, figures>>

inputs == <<disk, fname, target, levelCount, profileCount>>

\* ---------------------------------------------------------------- bounds

MaxLevels == 3          \* levels per profile, index study
MaxProfiles == 3        \* length of the coordinate / reshape rows, broadcast study
MaxLevelCount == 4      \* repeat count, broadcast study
MaxSwath == 3           \* profiles per granule, filter study
MaxGranuleLevels == 2   \* levels per profile, two-granule pipeline study

\* ------------------------------------------------------- program constants

Scale == 10             \* fixed-point resolution of a float pressure value
GoodFlag == 0           \* Quality_Flag == 0
NotebookTarget == 496   \* PresLevIndex[496]

\* ------------------------------------------------------------ input sets

LevelVals == {4960, 4966, 5000, 5040}
Targets == {4960, 4964, 4970, 5000}
CoordVals == {10, 20, 30}
FlagVals == {0, 1}

SeqsUpTo(S, n) == UNION {[1..k -> S] : k \in 0..n}
SeqsOfLen(S, n) == [1..n -> S]

\* ------------------------------------------------------------ datasets

EmptyMap == [k \in {} |-> 0]

EmptySwath == [CrIS_FORs |-> <<>>, Pressure |-> <<>>, Quality_Flag |-> <<>>,
               Number_of_P_Levels |-> 0]

\* A granule whose profiles share one sequence of pressure levels.
Granule(fors, levels, flags) ==
    [CrIS_FORs |-> fors,
     Pressure |-> [i \in 1..Len(fors) |-> levels],
     Quality_Flag |-> flags,
     Number_of_P_Levels |-> Len(levels)]

Number_of_CrIS_FORs(ds) == Len(ds.CrIS_FORs)

\* xr.open_mfdataset: the granules concatenated along the profile dimension,
\* in the order of the file list.
RECURSIVE ConcatAll(_)
ConcatAll(files) ==
    IF files = <<>> THEN EmptySwath
    ELSE LET h == Head(files)
             t == ConcatAll(Tail(files))
         IN [CrIS_FORs |-> h.CrIS_FORs \o t.CrIS_FORs,
             Pressure |-> h.Pressure \o t.Pressure,
             Quality_Flag |-> h.Quality_Flag \o t.Quality_Flag,
             Number_of_P_Levels |-> h.Number_of_P_Levels]

\* ------------------------------------------------- dtype='i4' conversion

\* Python's round() / np.rint: to the nearest integer, ties to the even one.
RoundHalfEven(x) ==
    LET q == x \div Scale
        r == x % Scale
    IN IF 2 * r < Scale THEN q
       ELSE IF 2 * r > Scale THEN q + 1
       ELSE IF q % 2 = 0 THEN q ELSE q + 1

\* A conversion that rounds to the nearest integer (np.rint before the cast).
RintI4(x) == RoundHalfEven(x)

\* np.array(values, dtype='i4') on float values: the fraction is discarded
\* (truncation toward zero).
ToI4(x) == IF x >= 0 THEN x \div Scale ELSE -((-x) \div Scale)

\* nucaps.sel(Number_of_CrIS_FORs=0).Pressure.values as int32.
pressureLevsOf(ds) ==
    [j \in 1..Len(ds.Pressure[1]) |-> ToI4(ds.Pressure[1][j])]

\* sel(Number_of_CrIS_FORs=0) on a swath: positional, so it needs a profile 0.
\* An empty level sequence is not rejected anywhere.
IndexCellRejectEmpty(ds) ==
    IF Number_of_CrIS_FORs(ds) = 0 THEN "IndexError"
    ELSE IF ds.Number_of_P_Levels = 0 THEN "ValueError"
    ELSE "none"

IndexCellError(ds) ==
    IF Number_of_CrIS_FORs(ds) = 0 THEN "IndexError" ELSE "none"

\* ------------------------------------------------------------- the dict

\* enumerate(pressureLevs): the 0-based index of the element at position p.
EnumerateFromOne(p) == p

Enumerate(p) == p - 1

\* dict.setdefault: an existing key keeps its value.
DictSetDefault(d, k, v) ==
    [x \in DOMAIN d \cup {k} |-> IF x \in DOMAIN d THEN d[x] ELSE v]

\* PresLevIndex.update({plev: i}): the key is (re)bound to i.
DictUpdate(d, k, v) ==
    [x \in DOMAIN d \cup {k} |-> IF x = k THEN v ELSE d[x]]

\* for i, plev in enumerate(pressureLevs): PresLevIndex.update({plev: i}),
\* from position p on.
RECURSIVE UpdateAll(_, _, _)
UpdateAll(d, levs, p) ==
    IF p > Len(levs) THEN d
    ELSE UpdateAll(DictUpdate(d, levs[p], Enumerate(p)), levs, p + 1)

Abs(x) == IF x >= 0 THEN x ELSE -x

\* A lookup that falls back to the key nearest the requested value.
DictGetNearest(d, t) ==
    IF DOMAIN d = {} THEN [ok |-> FALSE, value |-> 0]
    ELSE [ok |-> TRUE,
          value |-> d[CHOOSE k \in DOMAIN d :
                         \A j \in DOMAIN d :
                             Abs(k * Scale - t) <= Abs(j * Scale - t)]]

\* A lookup that takes the stored index for a 1-based position.
DictGetOneBased(d, t) ==
    IF \E k \in DOMAIN d : k * Scale = t
    THEN [ok |-> TRUE, value |-> d[CHOOSE k \in DOMAIN d : k * Scale = t] + 1]
    ELSE [ok |-> FALSE, value |-> 0]

\* PresLevIndex[t]: a key matches when it is numerically equal to t (Python
\* hashes and compares 496, 496.0 and np.int32(496) alike); nothing rounds t.
\* ok = FALSE is the KeyError.
DictGetItem(d, t) ==
    IF \E k \in DOMAIN d : k * Scale = t
    THEN [ok |-> TRUE, value |-> d[CHOOSE k \in DOMAIN d : k * Scale = t]]
    ELSE [ok |-> FALSE, value |-> 0]

\* ------------------------------------------------------ slicing, filtering

\* ds.sel(Number_of_P_Levels=idx): the dimension has no coordinate, so the
\* selection is positional and an index outside the dimension is an IndexError.
SelError(ds, idx) ==
    IF idx \in 0..(ds.Number_of_P_Levels - 1) THEN "none" ELSE "IndexError"

\* The slice: per profile, its variables at level idx. obs is the profile's
\* position in the swath it came from (its identity: Latitude/Longitude).
Sel(ds, idx) ==
    [i \in 1..Number_of_CrIS_FORs(ds) |->
        [obs |-> i,
         CrIS_FORs |-> ds.CrIS_FORs[i],
         Pressure |-> ds.Pressure[i][idx + 1],
         Quality_Flag |-> ds.Quality_Flag[i]]]

KeepFlag(p) == p.Quality_Flag = GoodFlag
KeepOtherFlags(p) == p.Quality_Flag # GoodFlag

\* A filter with the condition inverted.
WhereInverted(view) == SelectSeq(view, KeepOtherFlags)

\* view.where(view['Quality_Flag'] == 0, drop=True)
Where(view) == SelectSeq(view, KeepFlag)

\* ------------------------------------------------------------- broadcast

\* np.tile: the whole sequence repeated n times.
Tile(coord, n) ==
    [p \in 1..(Len(coord) * n) |-> coord[((p - 1) % Len(coord)) + 1]]

\* np.repeat(coord, n): each element n times, contiguously.
Repeat(coord, n) ==
    [p \in 1..(Len(coord) * n) |-> coord[((p - 1) \div n) + 1]]

\* reshape(-1, cols): the row count is inferred from the size.
ReshapeInferRows(flat, rows, cols) ==
    IF cols > 0 /\ Len(flat) % cols = 0
    THEN [ok |-> TRUE,
          shape |-> <<Len(flat) \div cols, cols>>,
          data |-> [i \in 1..(Len(flat) \div cols) |->
                       [j \in 1..cols |-> flat[(i - 1) * cols + j]]]]
    ELSE [ok |-> FALSE, shape |-> <<0, 0>>, data |-> <<>>]

\* flat.reshape(rows, cols): row-major; ok = FALSE is numpy's ValueError, raised
\* exactly when the sizes differ.
Reshape(flat, rows, cols) ==
    IF Len(flat) = rows * cols
    THEN [ok |-> TRUE,
          shape |-> <<rows, cols>>,
          data |-> [i \in 1..rows |->
                       [j \in 1..cols |-> flat[(i - 1) * cols + j]]]]
    ELSE [ok |-> FALSE, shape |-> <<0, 0>>, data |-> <<>>]

NoGrid == [shape |-> <<0, 0>>, data |-> <<>>]

\* ------------------------------------------------------------- the cells

Raise(e) ==
    /\ err' = e
    /\ UNCHANGED <<pc, nucaps, repeatFORs, pressureLevs, PresLevIndex,
                   griddedView, nucapsAll, griddedViewAll, figures>>

\* nucaps = xr.open_dataset(fname, decode_times=False)
OpenDataset ==
    /\ pc = "open" /\ err = "none"
    /\ nucaps' = disk[fname]
    /\ pc' = "repeat"
    /\ UNCHANGED <<inputs, err, repeatFORs, pressureLevs, PresLevIndex,
                   griddedView, nucapsAll, griddedViewAll, figures>>

\* repeatFORs = np.repeat(nucaps['CrIS_FORs'].values, 100).reshape(120,100)
RepeatCell ==
    /\ pc = "repeat" /\ err = "none"
    /\ UNCHANGED inputs
    /\ LET r == Reshape(Repeat(nucaps.CrIS_FORs, levelCount),
                        profileCount, levelCount)
       IN IF r.ok
          THEN /\ repeatFORs' = [shape |-> r.shape, data |-> r.data]
               /\ pc' = "index"
               /\ UNCHANGED <<err, nucaps, pressureLevs, PresLevIndex,
                              griddedView, nucapsAll, griddedViewAll, figures>>
          ELSE Raise("ValueError")

\* pressureLevs = np.array(...Pressure.values, dtype='i4'); PresLevIndex = {};
\* the loop over enumerate(pressureLevs).
IndexCell ==
    /\ pc = "index" /\ err = "none"
    /\ UNCHANGED inputs
    /\ IF IndexCellError(nucaps) = "none"
       THEN /\ pressureLevs' = pressureLevsOf(nucaps)
            /\ PresLevIndex' = UpdateAll(EmptyMap, pressureLevsOf(nucaps), 1)
            /\ pc' = "select"
            /\ UNCHANGED <<err, nucaps, repeatFORs, griddedView, nucapsAll,
                           griddedViewAll, figures>>
       ELSE Raise(IndexCellError(nucaps))

\* griddedView = nucaps.sel(Number_of_P_Levels=PresLevIndex[496])
SelectCell ==
    /\ pc = "select" /\ err = "none"
    /\ UNCHANGED inputs
    /\ LET item == DictGetItem(PresLevIndex, target)
       IN IF ~item.ok THEN Raise("KeyError")
          ELSE IF SelError(nucaps, item.value) # "none"
          THEN Raise(SelError(nucaps, item.value))
          ELSE /\ griddedView' = Sel(nucaps, item.value)
               /\ pc' = "plot"
               /\ UNCHANGED <<err, nucaps, repeatFORs, pressureLevs,
                              PresLevIndex, nucapsAll, griddedViewAll, figures>>

\* plt.scatter(griddedView['Longitude'], griddedView['Latitude'], c=griddedView['H2O'])
PlotCell ==
    /\ pc = "plot" /\ err = "none"
    /\ figures' = Append(figures, griddedView)
    /\ pc' = "openAll"
    /\ UNCHANGED <<inputs, err, nucaps, repeatFORs, pressureLevs, PresLevIndex,
                   griddedView, nucapsAll, griddedViewAll>>

\* allfiles = glob(...); nucapsAll = xr.open_mfdataset(allfiles, decode_times=False)
OpenAllCell ==
    /\ pc = "openAll" /\ err = "none"
    /\ nucapsAll' = ConcatAll(disk)
    /\ pc' = "selectAll"
    /\ UNCHANGED <<inputs, err, nucaps, repeatFORs, pressureLevs, PresLevIndex,
                   griddedView, griddedViewAll, figures>>

\* A cell that first rebuilds the dictionary from the aggregated swath.
SelectAllCellRebuild ==
    /\ pc = "selectAll" /\ err = "none"
    /\ UNCHANGED inputs
    /\ LET rebuilt == IF IndexCellError(nucapsAll) = "none"
                      THEN UpdateAll(EmptyMap, pressureLevsOf(nucapsAll), 1)
                      ELSE EmptyMap
           item == DictGetItem(rebuilt, target)
       IN IF ~item.ok \/ SelError(nucapsAll, item.value) # "none"
          THEN Raise("KeyError")
          ELSE /\ PresLevIndex' = rebuilt
               /\ griddedViewAll' = Where(Sel(nucapsAll, item.value))
               /\ pc' = "plotAll"
               /\ UNCHANGED <<err, nucaps, repeatFORs, pressureLevs,
                              griddedView, nucapsAll, figures>>

\* griddedViewAll = nucapsAll.sel(Number_of_P_Levels=PresLevIndex[496])
\* griddedViewAll = griddedViewAll.where(griddedViewAll['Quality_Flag'] == 0, drop=True)
SelectAllCell ==
    /\ pc = "selectAll" /\ err = "none"
    /\ UNCHANGED inputs
    /\ LET item == DictGetItem(PresLevIndex, target)
       IN IF ~item.ok THEN Raise("KeyError")
          ELSE IF SelError(nucapsAll, item.value) # "none"
          THEN Raise(SelError(nucapsAll, item.value))
          ELSE /\ griddedViewAll' = Where(Sel(nucapsAll, item.value))
               /\ pc' = "plotAll"
               /\ UNCHANGED <<err, nucaps, repeatFORs, pressureLevs,
                              PresLevIndex, griddedView, nucapsAll, figures>>

\* plt.scatter(griddedViewAll['Longitude'], griddedViewAll['Latitude'], c=griddedViewAll['H2O'])
PlotAllCell ==
    /\ pc = "plotAll" /\ err = "none"
    /\ figures' = Append(figures, griddedViewAll)
    /\ pc' = "done"
    /\ UNCHANGED <<inputs, err, nucaps, repeatFORs, pressureLevs, PresLevIndex,
                   griddedView, nucapsAll, griddedViewAll>>

Next ==
    \/ OpenDataset
    \/ RepeatCell
    \/ IndexCell
    \/ SelectCell
    \/ PlotCell
    \/ OpenAllCell
    \/ SelectAllCell
    \/ PlotAllCell

\* ------------------------------------------------------ initial states

\* A fresh kernel: no cell has run.
Fresh ==
    /\ pc = "open" /\ err = "none"
    /\ nucaps = EmptySwath /\ nucapsAll = EmptySwath
    /\ repeatFORs = NoGrid
    /\ pressureLevs = <<>> /\ PresLevIndex = EmptyMap
    /\ griddedView = <<>> /\ griddedViewAll = <<>>
    /\ figures = <<>>

DefaultFORs == <<1, 2>>
DefaultFlags == <<0, 1>>
DefaultLevels == <<5040, 4966>>

ScenarioLevels == <<10000, 8500, 5000, 4960, 3000>>
ScenarioFlags == <<0, 1, 0, 0, 1>>
ScenarioFORs == <<1, 2, 3, 4, 5>>

\* The levels of profile 0 and the requested key vary.
InitIndex ==
    /\ Fresh
    /\ fname = 1
    /\ \/ /\ \E levels \in SeqsUpTo(LevelVals, MaxLevels) :
                /\ disk = <<Granule(DefaultFORs, levels, DefaultFlags)>>
                /\ levelCount = Len(levels)
             /\ profileCount = Len(DefaultFORs)
             /\ target \in Targets
       \/ /\ disk = <<Granule(ScenarioFORs, ScenarioLevels, ScenarioFlags)>>
          /\ levelCount = Len(ScenarioLevels)
          /\ profileCount = Len(ScenarioFORs)
          /\ target \in Targets

\* The coordinate, the repeat count and the reshape rows vary.
InitBroadcast ==
    /\ Fresh
    /\ fname = 1
    /\ target = NotebookTarget * Scale
    /\ levelCount \in 0..MaxLevelCount
    /\ profileCount \in 0..MaxProfiles
    /\ \E coord \in SeqsUpTo(CoordVals, MaxProfiles) :
          disk = <<Granule(coord, DefaultLevels, [i \in 1..Len(coord) |-> GoodFlag])>>

\* The quality flags of two granules vary.
InitFilter ==
    /\ Fresh
    /\ fname = 1
    /\ target = NotebookTarget * Scale
    /\ levelCount = Len(DefaultLevels)
    /\ \E f1 \in SeqsUpTo(FlagVals, MaxSwath), f2 \in SeqsUpTo(FlagVals, MaxSwath) :
          /\ disk = <<Granule([i \in 1..Len(f1) |-> i], DefaultLevels, f1),
                      Granule([i \in 1..Len(f2) |-> i], DefaultLevels, f2)>>
          /\ profileCount = Len(f1)

\* Two granules with their own levels; either may be the single granule.
Init ==
    /\ Fresh
    /\ target \in {4960, 5000}
    /\ profileCount = Len(DefaultFORs)
    /\ \E n \in 0..MaxGranuleLevels :
          /\ levelCount = n
          /\ \E l1 \in SeqsOfLen(LevelVals, n), l2 \in SeqsOfLen(LevelVals, n) :
                disk = <<Granule(DefaultFORs, l1, DefaultFlags),
                         Granule(DefaultFORs, l2, DefaultFlags)>>
    /\ fname \in 1..2

Spec == Init /\ [][Next]_vars
SpecIndex == InitIndex /\ [][Next]_vars
SpecBroadcast == InitBroadcast /\ [][Next]_vars
SpecFilter == InitFilter /\ [][Next]_vars

\* ================================================================ claims

\* The index cell has run to its end.
Built == pc \in {"select", "plot", "openAll", "selectAll", "plotAll", "done"}

\* The single-granule select has run to its end.
Selected == pc \in {"plot", "openAll", "selectAll", "plotAll", "done"}

\* The multi-granule select and filter have run to their end.
SelectedAll == pc \in {"plotAll", "done"}

\* The float levels of profile 0 of the single granule.
Levels0 == IF Number_of_CrIS_FORs(nucaps) = 0 THEN <<>> ELSE nucaps.Pressure[1]

\* k is x with its fraction discarded, stated without the conversion.
IsTruncOf(k, x) ==
    IF x >= 0 THEN k * Scale <= x /\ x < (k + 1) * Scale
    ELSE (k - 1) * Scale < x /\ x <= k * Scale

Keys == DOMAIN PresLevIndex

\* ---- C1
\* C1, as stated: the keys of the mapping are the levels rounded to the
\* nearest integer, and each key's index holds a level that rounds to it.
C1_Rounded ==
    (Built /\ Levels0 # <<>>) =>
        /\ Keys = {RoundHalfEven(Levels0[i]) : i \in 1..Len(Levels0)}
        /\ \A k \in Keys : RoundHalfEven(Levels0[PresLevIndex[k] + 1]) = k

\* C1, amended: the keys of the mapping are the levels with their fraction
\* discarded (496.6 is recorded under 496), and each key's index holds a
\* level that truncates to it.
C1_Truncated ==
    (Built /\ Levels0 # <<>>) =>
        /\ \A i \in 1..Len(Levels0) : \E k \in Keys : IsTruncOf(k, Levels0[i])
        /\ \A k \in Keys : IsTruncOf(k, Levels0[PresLevIndex[k] + 1])

C1_Witness ==
    /\ Built
    /\ \E i \in 1..Len(Levels0) : Levels0[i] = 4966
    /\ 496 \in Keys /\ 497 \notin Keys

\* ---- C2
\* C2: every key maps to the largest index whose integer-converted level is
\* that key (a later duplicate overwrites an earlier one).
C2_LastWriteWins ==
    Built =>
        \A k \in Keys :
            /\ PresLevIndex[k] \in 0..(Len(Levels0) - 1)
            /\ IsTruncOf(k, Levels0[PresLevIndex[k] + 1])
            /\ \A i \in 0..(Len(Levels0) - 1) :
                  IsTruncOf(k, Levels0[i + 1]) => i <= PresLevIndex[k]

C2_Witness ==
    /\ Built
    /\ Levels0 = <<5000, 5000, 4960>>
    /\ PresLevIndex[500] = 1 /\ PresLevIndex[496] = 2

\* ---- C3
\* The slice a select at 0-based level v gives for swath ds.
IsSliceAt(view, ds, v) ==
    /\ Len(view) = Number_of_CrIS_FORs(ds)
    /\ \A i \in 1..Len(view) :
          /\ view[i].obs = i
          /\ view[i].Pressure = ds.Pressure[i][v + 1]

\* C3, as stated: whenever round(target) is a key, the lookup succeeds and
\* the level selected is the index stored under that key.
C3_RoundedHit ==
    (Built /\ RoundHalfEven(target) \in Keys) =>
        /\ err = "none"
        /\ Selected =>
              IsSliceAt(griddedView, nucaps, PresLevIndex[RoundHalfEven(target)])

\* C3, amended: whenever the target is itself equal to a key (the lookup does
\* not round it), the lookup succeeds and the level selected is the index
\* stored under that key.
C3_ExactHit ==
    \A k \in Keys :
        (Built /\ k * Scale = target) =>
            /\ err = "none"
            /\ Selected => IsSliceAt(griddedView, nucaps, PresLevIndex[k])

C3_Witness ==
    /\ pc = "plot"
    /\ Levels0 = ScenarioLevels
    /\ target = 5000
    /\ PresLevIndex[500] = 2
    /\ griddedView[1].Pressure = 5000

\* ---- C4
Miss == RoundHalfEven(target) \notin Keys

\* After a miss the run is stopped at the select cell with nothing selected
\* and nothing plotted.
C4_MissState ==
    (Built /\ Miss) =>
        /\ pc = "select"
        /\ err \in {"none", "KeyError"}
        /\ griddedView = <<>> /\ griddedViewAll = <<>> /\ figures = <<>>

C4_MissStep ==
    (pc = "select" /\ err = "none" /\ Miss) => err' = "KeyError"

\* C4: whenever round(target) is not a key, the select cell stops with the
\* lookup's KeyError: no level is selected instead (no fallback to a nearest
\* level), and no later select or plot runs.
C4_MissFails == [](C4_MissState) /\ [][C4_MissStep]_vars

C4_Witness ==
    /\ pc = "select" /\ err = "KeyError"
    /\ Levels0 = <<5040, 4960>>
    /\ target = 5000

\* ---- C5
Coordinate == nucaps.CrIS_FORs

Repeated == pc \notin {"open", "repeat"}

\* C5: for a coordinate of length profileCount the broadcast succeeds, and the
\* grid has shape (profileCount, levelCount) with coordinate[i] all along row i.
C5_Broadcast ==
    (pc # "open" /\ Len(Coordinate) = profileCount) =>
        /\ pc = "repeat" => err = "none"
        /\ Repeated =>
              /\ repeatFORs.shape = <<profileCount, levelCount>>
              /\ Len(repeatFORs.data) = profileCount
              /\ \A i \in 1..profileCount :
                    /\ Len(repeatFORs.data[i]) = levelCount
                    /\ \A j \in 1..levelCount :
                          repeatFORs.data[i][j] = Coordinate[i]

C5_Witness ==
    /\ pc = "index"
    /\ Coordinate = <<10, 20, 30>> /\ levelCount = 4 /\ profileCount = 3
    /\ repeatFORs.data = <<<<10, 10, 10, 10>>, <<20, 20, 20, 20>>,
                           <<30, 30, 30, 30>>>>

\* ---- C6
Mismatch == Len(Coordinate) # profileCount

\* C6, as stated: whenever the coordinate's length differs from profileCount
\* the broadcast fails and produces no grid, for every levelCount.
C6_MismatchAlwaysFails ==
    (pc # "open" /\ Mismatch) => (pc = "repeat" /\ repeatFORs = NoGrid)

C6_MismatchState ==
    (pc # "open" /\ Mismatch /\ levelCount >= 1) =>
        /\ pc = "repeat"
        /\ err \in {"none", "ValueError"}
        /\ repeatFORs = NoGrid

C6_MismatchStep ==
    (pc = "repeat" /\ err = "none" /\ Mismatch /\ levelCount >= 1) =>
        err' = "ValueError"

\* C6, amended: whenever the coordinate's length differs from profileCount and
\* levelCount is at least 1, the broadcast fails (ValueError) and produces no
\* grid.
C6_MismatchFails == [](C6_MismatchState) /\ [][C6_MismatchStep]_vars

C6_Witness ==
    /\ pc = "repeat" /\ err = "ValueError"
    /\ Coordinate = <<10, 20>> /\ levelCount = 4 /\ profileCount = 3

\* ---- C7
EmptyLevels == Number_of_CrIS_FORs(nucaps) > 0 /\ nucaps.Number_of_P_Levels = 0

\* C7, as stated: with an empty level sequence the index cell fails instead of
\* returning a mapping.
C7_EmptyRejected ==
    (pc # "open" /\ EmptyLevels) => pc \in {"repeat", "index"}

C7_EmptyState ==
    (Built /\ EmptyLevels) => (Keys = {} /\ pressureLevs = <<>>)

C7_EmptyStep ==
    (pc = "index" /\ err = "none" /\ EmptyLevels) =>
        (pc' = "select" /\ err' = "none" /\ PresLevIndex' = EmptyMap)

\* C7, amended: with an empty level sequence the index cell does not fail; it
\* returns the empty mapping.
C7_EmptyGivesEmptyMap == [](C7_EmptyState) /\ [][C7_EmptyStep]_vars

C7_Witness ==
    /\ pc = "select" /\ err = "none"
    /\ EmptyLevels
    /\ Keys = {}

\* ---- C8
\* C8: every value of the mapping is an index into the level sequence, no two
\* keys share an index, and there are as many keys as distinct
\* integer-converted levels (at most the sequence's length).
C8_IndexValidity ==
    (Built /\ Levels0 # <<>>) =>
        /\ \A k \in Keys : PresLevIndex[k] \in 0..(Len(Levels0) - 1)
        /\ \A k1, k2 \in Keys : PresLevIndex[k1] = PresLevIndex[k2] => k1 = k2
        /\ Cardinality(Keys) =
              Cardinality({pressureLevs[i] : i \in 1..Len(pressureLevs)})
        /\ Cardinality(Keys) <= Len(Levels0)
        /\ Len(pressureLevs) = Len(Levels0)

C8_Witness ==
    /\ Built
    /\ Len(Levels0) = 3
    /\ Cardinality(Keys) = 2

\* ---- C9
\* C9: after the select and the filter, the retained profiles are exactly the
\* profiles of the aggregated swath whose quality flag is 0, each once, in
\* their original order.
C9_FilterKeepsGood ==
    SelectedAll =>
        /\ \A i \in 1..Len(griddedViewAll) :
              /\ griddedViewAll[i].obs \in 1..Number_of_CrIS_FORs(nucapsAll)
              /\ griddedViewAll[i].Quality_Flag = 0
              /\ griddedViewAll[i].Quality_Flag =
                    nucapsAll.Quality_Flag[griddedViewAll[i].obs]
              /\ griddedViewAll[i].CrIS_FORs =
                    nucapsAll.CrIS_FORs[griddedViewAll[i].obs]
        /\ \A i, j \in 1..Len(griddedViewAll) :
              i < j => griddedViewAll[i].obs < griddedViewAll[j].obs
        /\ \A o \in 1..Number_of_CrIS_FORs(nucapsAll) :
              nucapsAll.Quality_Flag[o] = 0 =>
                  \E i \in 1..Len(griddedViewAll) : griddedViewAll[i].obs = o

C9_Witness ==
    /\ pc = "plotAll"
    /\ nucapsAll.Quality_Flag = <<0, 1, 0, 0, 1>>
    /\ Len(griddedViewAll) = 3
    /\ griddedViewAll[1].obs = 1 /\ griddedViewAll[2].obs = 3
    /\ griddedViewAll[3].obs = 4

\* ---- C10
\* Only the index cell writes the mapping.
C10_ReadOnlyStep == pc # "index" => PresLevIndex' = PresLevIndex

\* The level x converts to the integer the target names.
MatchesTarget(x) == target % Scale = 0 /\ IsTruncOf(target \div Scale, x)

\* The multi-granule slice is taken at the level the single granule's
\* profile 0 gives for the target: the last position whose level truncates
\* to it.
C10_Reused ==
    SelectedAll =>
        \E v \in 0..(Len(Levels0) - 1) :
            /\ MatchesTarget(Levels0[v + 1])
            /\ \A i \in 0..(Len(Levels0) - 1) :
                  MatchesTarget(Levels0[i + 1]) => i <= v
            /\ \A i \in 1..Len(griddedViewAll) :
                  griddedViewAll[i].Pressure =
                      nucapsAll.Pressure[griddedViewAll[i].obs][v + 1]

\* C10: every step after the index is built leaves the mapping unchanged, and
\* the multi-granule select reads that same mapping instead of one rebuilt
\* from the aggregated swath.
C10_BuiltOnceReadOnly == [][C10_ReadOnlyStep]_vars /\ [](C10_Reused)

C10_Witness ==
    /\ pc = "done"
    /\ nucapsAll.Pressure[1] # nucaps.Pressure[1]
    /\ UpdateAll(EmptyMap, pressureLevsOf(nucapsAll), 1) # PresLevIndex
    /\ Len(griddedViewAll) > 0

====
